---- MODULE Spec2Model ----
(***************************************************************************)
(* Model of songbird's TrackQueue (src/src/tracks/queue.rs) and of the     *)
(* XSalsa20Poly1305 packet layout code (src/src/driver/crypto.rs).         *)
(*                                                                         *)
(* Seven specifications share the module:                                  *)
(*   Spec        the track queue, its callers on several threads, the      *)
(*               event loop running QueueHandler / SongPreloader, and the  *)
(*               mixer which owns the tracks' play state;                  *)
(*   SkipSpec    Spec with the history of skip() and with the fairness of  *)
(*               the mixer thread and of the event loop;                   *)
(*   CryptoSpec  one CryptoState and one packet buffer, driven through     *)
(*               write_packet_nonce, encrypt_in_place and a receiver's     *)
(*               decryption;                                               *)
(*   MixerSpec   the mixers built by src/benches/mixing-task.rs, run       *)
(*               through cycle(); what a cycle does follows section 4.1    *)
(*               of the specification;                                     *)
(*   PreloadSpec one call of add() or add_raw(): the preload time and the  *)
(*               event handlers registered on the handle;                  *)
(*   DequeueSpec Spec with the history of dequeue();                       *)
(*   DrainSpec   the queue without pause, dequeue and modify_queue, with   *)
(*               handles of ended tracks among those given to add_raw,     *)
(*               and with the fairness of the threads and of the tracks.   *)
(* Each specification keeps the other parts' variables at their initial   *)
(* values.                                                                 *)
(***************************************************************************)
EXTENDS Integers, Sequences, FiniteSets, TLC

(***************************************************************************)
(* Bounds of the queue model.                                              *)
(***************************************************************************)
NumTracks == 2

Tracks == 1..NumTracks
NoTrack == 0

VARIABLES
    tracks,        \* TrackQueueCore.tracks: the VecDeque<Queued>, front first
    lock,          \* holder of the parking_lot mutex: a caller id, or NoTrack
    pc,            \* per track: position of the add() call that enqueues it
    preload,       \* per track: "armed" while a SongPreloader waits on it
    mode,          \* per track: play state held by the mixer
    inbound,       \* net effect of the handle messages the mixer has not drained
    events,        \* End events fired by the mixer, not yet handled
    last,          \* what the step just taken did, when it was a handler's act
    started,       \* history: the tracks the mixer has put in Play state so far
    userModified,  \* history: dequeue / modify_queue has changed the queue
    rawPlaying     \* history: add_raw was handed a track that was playing

qvars == <<tracks, lock, pc, preload, mode, inbound, events, last, started,
           userModified, rawPlaying>>

VARIABLES
    skipped,       \* history kept by SkipSpec: the front tracks skip() has stopped
    skipFlip       \* history kept by SkipSpec: flips with every call of skip()

hvars == <<skipped, skipFlip>>

(***************************************************************************)
(* Bounds and sizes of the crypto model.                                   *)
(***************************************************************************)
MaxPackets == 3
MaxPlain == 2

TAG_SIZE == 16
NONCE_SIZE == 24
RtpMinimumPacketSize == 12
LiteNonceSize == 4
Slack == 2

Byte == 256
Half == 65536

VARIABLES
    cstate,        \* the CryptoState: [kind, counter]
    c0,            \* history: the counter CryptoState::from drew for Lite
    calls,         \* history: number of write_packet_nonce calls made
    key,           \* the session's cipher key
    packet,        \* the packet buffer: RTP header, then the payload area
    plain,         \* the payload bytes placed at body offset TAG_SIZE
    payloadEnd,    \* body offset one past the plaintext
    payloadLen,    \* payload_len handed to encrypt_in_place
    prev,          \* the packet buffer before the latest call
    phase,         \* "idle", "filled", "nonced", "encrypted", "received"
    result,        \* outcome of the latest encrypt_in_place
    recovered      \* what the receiver decrypted from the packet

cvars == <<cstate, c0, calls, key, packet, plain, payloadEnd, payloadLen, prev,
           phase, result, recovered>>

(***************************************************************************)
(* Bounds of the mixer model.                                              *)
(***************************************************************************)
MaxCycles == 7
MaxMixTracks == 1
MaxFrames == 2

VARIABLES
    bench,           \* which bench built the mixer: "dummied" or "culling"
    sequence,        \* Mixer: u16 RTP sequence number
    timestamp,       \* Mixer: u32 RTP timestamp, as <<high half, low half>>
    silence_frames,  \* Mixer: silence packets still to send
    conn_active,     \* Mixer: a connection (cipher, UDP sink) is installed
    mixing,          \* the tracks the mixer owns: id -> frames left, play state
    endEvents,       \* ids of the tracks whose End event was posted
    udp_tx,          \* the packets handed to the UDP sink, oldest first
    cycles,          \* number of cycle() calls so far
    added            \* number of tracks ever added to the mixer

mvars == <<bench, sequence, timestamp, silence_frames, conn_active, mixing,
           endEvents, udp_tx, cycles, added>>

(***************************************************************************)
(* Bounds of the model of add()'s preload time.                            *)
(***************************************************************************)
MaxSecs == 6

VARIABLES
    call,          \* the call made: add(track) or add_raw(handle, preload_time)
    preload_time,  \* the Option<Duration> add_raw is handed
    add_events,    \* the add_event calls add_raw made on the handle, in order
    addpc          \* "new", "timed" (get_preload_time returned), "added"

pvars == <<call, preload_time, add_events, addpc>>

VARIABLES
    dequeued,      \* history kept by DequeueSpec: what the dequeue just made returned
    dqIndex,       \* history kept by DequeueSpec: the index that dequeue was given
    playAsked      \* history kept by DrainSpec: the tracks play() was called on

ovars == <<dequeued, dqIndex, playAsked>>

vars == <<qvars, cvars, hvars, mvars, pvars, ovars>>

(***************************************************************************)
(* Track handles and the mixer's control channel.                          *)
(*                                                                         *)
(* A handle call is a message to the mixer; it fails with                  *)
(* ControlError::Finished once the track has ended or was stopped.  The    *)
(* mixer drains every pending message at a tick boundary, so `inbound`     *)
(* keeps the net effect of the undrained messages: per track the last      *)
(* play / pause, or "stop" once a stop was sent (whatever follows a stop   *)
(* is ignored by the mixer), and the order in which the stops were sent.   *)
(***************************************************************************)
Finished(t) == mode[t] \in {"Stop", "End"}

NoMessages == [cmd |-> [t \in Tracks |-> "none"], stops |-> <<>>]

\* The channel after handle.<cmd>() on track t: unchanged when the call fails.
Send(ib, t, cmd) ==
    IF Finished(t) \/ ib.cmd[t] = "stop" THEN ib
    ELSE IF cmd = "stop"
         THEN [cmd |-> [ib.cmd EXCEPT ![t] = "stop"], stops |-> Append(ib.stops, t)]
         ELSE [cmd |-> [ib.cmd EXCEPT ![t] = cmd], stops |-> ib.stops]

\* `last` records what the step just taken did when it was a handler's act:
\* the context's track, the entries popped, and the tracks asked to play
\* (QueueHandler) or to become playable (SongPreloader).  Every other step
\* resets it.
Obs(op, t, popped, asked) == [op |-> op, t |-> t, popped |-> popped, asked |-> asked]

NoObs == Obs("none", NoTrack, <<>>, <<>>)

(***************************************************************************)
(* The mixer: applies the pending messages at a tick boundary, fires End   *)
(* for each track it stops, and ends a playing track at EOF.  A track that *)
(* ends is dropped together with its event handlers.                       *)
(***************************************************************************)
ApplyCmd(m, cmd) ==
    IF m \in {"None", "Stop", "End"} \/ cmd = "none" THEN m
    ELSE IF cmd = "play" THEN "Play"
    ELSE IF cmd = "pause" THEN "Pause"
    ELSE "Stop"

MixerTick ==
    /\ inbound # NoMessages
    /\ mode' = [t \in Tracks |-> ApplyCmd(mode[t], inbound.cmd[t])]
    /\ events' = events \o SelectSeq(inbound.stops, LAMBDA t : ~Finished(t))
    /\ started' = started \cup {t \in Tracks : inbound.cmd[t] = "play" /\ mode'[t] = "Play"}
    /\ preload' = [t \in Tracks |-> IF mode'[t] = "Stop" THEN "none" ELSE preload[t]]
    /\ inbound' = NoMessages
    /\ last' = NoObs
    /\ UNCHANGED <<tracks, lock, pc, userModified, rawPlaying>>

TrackEnds(t) ==
    /\ mode[t] = "Play"
    /\ mode' = [mode EXCEPT ![t] = "End"]
    /\ events' = Append(events, t)
    /\ preload' = [preload EXCEPT ![t] = "none"]
    /\ last' = NoObs
    /\ UNCHANGED <<tracks, lock, pc, inbound, started, userModified, rawPlaying>>

\* The owner of a handle returned by add() stops its track directly.
HandleStop(t) ==
    /\ pc[t] = "done"
    /\ ~Finished(t)
    /\ inbound' = Send(inbound, t, "stop")
    /\ last' = NoObs
    /\ UNCHANGED <<tracks, lock, pc, preload, mode, events, started, userModified, rawPlaying>>

(***************************************************************************)
(* QueueHandler::act, run by the event loop for the End event of a track.  *)
(***************************************************************************)
\* A faulty loop that gives up after the first play(), failed or not, and
\* pops nothing: the fault C10 rules out.
ActLoop_StopsAtFirst(q) ==
    [rest |-> q, asked |-> IF q = <<>> THEN <<>> ELSE <<Head(q)>>]

\* The `while let Some(new) = inner.tracks.front()` loop: pops every front
\* track whose play() fails, stops at the first whose play() succeeds.
RECURSIVE ActLoop(_)
ActLoop(q) ==
    IF q = <<>> THEN [rest |-> <<>>, asked |-> <<>>]
    ELSE IF Finished(Head(q))
         THEN LET r == ActLoop(Tail(q))
              IN [rest |-> r.rest, asked |-> <<Head(q)>> \o r.asked]
         ELSE [rest |-> q, asked |-> <<Head(q)>>]

\* Event contexts: the End of a track, or a context that is no track context.
TrackCtx(t) == [kind |-> "Track", track |-> t]

NonTrackCtxs == {[kind |-> "DriverConnect", track |-> NoTrack],
                 [kind |-> "ClientDisconnect", track |-> NoTrack]}

\* A faulty comparison that takes any End event for the head's: the fault C5
\* rules out.
HeadMatches_AnyHead(t) == tracks # <<>>

\* `inner.tracks.front()?.uuid() != ts.first()?.1.uuid()` is false.
HeadMatches(t) == tracks # <<>> /\ Head(tracks) = t

\* A faulty handler that pops the ended head and never asks the next entry to
\* play: the fault C4 rules out.
act_PopOnly(ctx) ==
    IF ctx.kind # "Track" \/ ~HeadMatches(ctx.track)
    THEN [tracks |-> tracks, popped |-> <<>>, asked |-> <<>>, inbound |-> inbound]
    ELSE [tracks |-> Tail(tracks), popped |-> <<Head(tracks)>>, asked |-> <<>>,
          inbound |-> inbound]

\* What act(ctx) does under the lock: the queue it leaves, the entries it
\* popped, the tracks it called play() on, and the mixer's channel afterwards.
act(ctx) ==
    IF ctx.kind # "Track" \/ ~HeadMatches(ctx.track)
    THEN [tracks |-> tracks, popped |-> <<>>, asked |-> <<>>, inbound |-> inbound]
    ELSE LET r == ActLoop(Tail(tracks))
         IN [tracks |-> r.rest,
             popped |-> SubSeq(tracks, 1, Len(tracks) - Len(r.rest)),
             asked |-> r.asked,
             inbound |-> IF r.rest = <<>> THEN inbound
                         ELSE Send(inbound, Head(r.rest), "play")]

QueueHandlerAct ==
    /\ events # <<>>
    /\ lock = NoTrack
    /\ LET r == act(TrackCtx(Head(events)))
       IN /\ tracks' = r.tracks
          /\ inbound' = r.inbound
          /\ last' = Obs("act", Head(events), r.popped, r.asked)
    /\ events' = Tail(events)
    /\ UNCHANGED <<lock, pc, preload, mode, started, userModified, rawPlaying>>

(***************************************************************************)
(* SongPreloader::act, run when the Delayed event of track t fires.        *)
(***************************************************************************)
\* A faulty preloader that prepares the front entry, get(0), instead of the
\* one behind it: the fault C11 rules out.
SongPreloaderAct_Front(t) ==
    /\ preload[t] = "armed"
    /\ mode[t] = "Play"
    /\ lock = NoTrack
    /\ preload' = [preload EXCEPT ![t] = "none"]
    /\ last' = Obs("preload", t, <<>>,
                   IF Len(tracks) >= 1 THEN <<tracks[1]>> ELSE <<>>)
    /\ UNCHANGED <<tracks, lock, pc, mode, inbound, events, started, userModified, rawPlaying>>

\* inner.tracks.get(1): the entry behind the front one, whatever track fired.
SongPreloaderAct(t) ==
    /\ preload[t] = "armed"
    /\ mode[t] = "Play"
    /\ lock = NoTrack
    /\ preload' = [preload EXCEPT ![t] = "none"]
    /\ last' = Obs("preload", t, <<>>,
                   IF Len(tracks) >= 2 THEN <<tracks[2]>> ELSE <<>>)
    /\ UNCHANGED <<tracks, lock, pc, mode, inbound, events, started, userModified, rawPlaying>>

(***************************************************************************)
(* TrackQueue::add and add_raw.  add() awaits the metadata lookup, hands   *)
(* the paused track to the driver, then runs add_raw: lock, install the    *)
(* handlers, test emptiness, push, unlock, and play when it was empty.     *)
(* Tracks are numbered in the order their add_raw calls take the lock,     *)
(* which is the order they are pushed.                                     *)
(***************************************************************************)
\* A faulty add() that takes the queue lock before it awaits the metadata:
\* the fault C9 rules out.
AddBegin_LocksFirst(t) ==
    /\ pc[t] = "new"
    /\ IF t = 1 THEN TRUE ELSE pc[t - 1] # "new"
    /\ lock = NoTrack
    /\ lock' = t
    /\ pc' = [pc EXCEPT ![t] = "meta"]
    /\ last' = NoObs
    /\ UNCHANGED <<tracks, preload, mode, inbound, events, started, userModified, rawPlaying>>

\* add() is called and suspends in get_preload_time(..).await.
AddBegin(t) ==
    /\ pc[t] = "new"
    /\ IF t = 1 THEN TRUE ELSE pc[t - 1] # "new"
    /\ pc' = [pc EXCEPT ![t] = "meta"]
    /\ last' = NoObs
    /\ UNCHANGED <<tracks, lock, preload, mode, inbound, events, started,
                   userModified, rawPlaying>>

\* get_preload_time(..).await has resolved: driver.play(track.pause()), then
\* add_raw runs up to `let mut inner = self.inner.lock();`.
AddRawLock(t, hasDuration) ==
    /\ pc[t] = "meta"
    /\ IF t = 1 THEN TRUE ELSE pc[t - 1] \in {"play", "done"}
    /\ lock = NoTrack
    /\ lock' = t
    /\ pc' = [pc EXCEPT ![t] = "locked"]
    /\ preload' = [preload EXCEPT ![t] = IF hasDuration THEN "time" ELSE "none"]
    /\ mode' = [mode EXCEPT ![t] = "Pause"]
    /\ last' = NoObs
    /\ UNCHANGED <<tracks, inbound, events, started, userModified, rawPlaying>>

\* add_raw is called directly with the handle of a track that the driver is
\* already playing, and with a preload time; it runs up to the lock.
AddRawPlaying(t) ==
    /\ pc[t] = "new"
    /\ IF t = 1 THEN TRUE ELSE pc[t - 1] \in {"play", "done"}
    /\ lock = NoTrack
    /\ lock' = t
    /\ pc' = [pc EXCEPT ![t] = "locked"]
    /\ preload' = [preload EXCEPT ![t] = "time"]
    /\ mode' = [mode EXCEPT ![t] = "Play"]
    /\ rawPlaying' = TRUE
    /\ last' = NoObs
    /\ UNCHANGED <<tracks, inbound, events, started, userModified>>

\* add_raw is called directly with the handle of a track that has already
\* ended: every call on the handle fails with ControlError::Finished, so the
\* add_event calls install no handler; it runs up to the lock.
AddRawFinished(t) ==
    /\ pc[t] = "new"
    /\ IF t = 1 THEN TRUE ELSE pc[t - 1] \in {"play", "done"}
    /\ lock = NoTrack
    /\ lock' = t
    /\ pc' = [pc EXCEPT ![t] = "locked"]
    /\ preload' = [preload EXCEPT ![t] = "none"]
    /\ mode' = [mode EXCEPT ![t] = "End"]
    /\ last' = NoObs
    /\ UNCHANGED <<tracks, inbound, events, started, userModified, rawPlaying>>

\* A faulty add_raw that plays every track it pushes, not only the one pushed
\* onto an empty queue: the fault C2 rules out.
AddRawCritical_AlwaysPlays(t) ==
    /\ pc[t] = "locked"
    /\ lock = t
    /\ preload' = [preload EXCEPT ![t] = IF @ = "time" THEN "armed" ELSE @]
    /\ pc' = [pc EXCEPT ![t] = "play"]
    /\ tracks' = Append(tracks, t)
    /\ lock' = NoTrack
    /\ last' = NoObs
    /\ UNCHANGED <<mode, inbound, events, started, userModified, rawPlaying>>

\* A faulty add_raw that tests the queue for emptiness after pushing, so that
\* no pushed track is ever played: the fault C12 rules out.
AddRawCritical_TestsAfterPush(t) ==
    /\ pc[t] = "locked"
    /\ lock = t
    /\ preload' = [preload EXCEPT ![t] = IF @ = "time" THEN "armed" ELSE @]
    /\ pc' = [pc EXCEPT ![t] = IF Append(tracks, t) = <<>> THEN "play" ELSE "done"]
    /\ tracks' = Append(tracks, t)
    /\ lock' = NoTrack
    /\ last' = NoObs
    /\ UNCHANGED <<mode, inbound, events, started, userModified, rawPlaying>>

\* The block computing should_play, up to the guard's drop at its end.
AddRawCritical(t) ==
    /\ pc[t] = "locked"
    /\ lock = t
    /\ preload' = [preload EXCEPT ![t] = IF @ = "time" THEN "armed" ELSE @]
    /\ pc' = [pc EXCEPT ![t] = IF tracks = <<>> THEN "play" ELSE "done"]
    /\ tracks' = Append(tracks, t)
    /\ lock' = NoTrack
    /\ last' = NoObs
    /\ UNCHANGED <<mode, inbound, events, started, userModified, rawPlaying>>

\* `if should_play { let _ = handle.play(); }`
AddRawPlay(t) ==
    /\ pc[t] = "play"
    /\ pc' = [pc EXCEPT ![t] = "done"]
    /\ inbound' = Send(inbound, t, "play")
    /\ last' = NoObs
    /\ UNCHANGED <<tracks, lock, preload, mode, events, started, userModified, rawPlaying>>

(***************************************************************************)
(* The synchronous TrackQueue operations: each locks, acts and unlocks.    *)
(***************************************************************************)
Current == IF tracks = <<>> THEN NoTrack ELSE Head(tracks)

CurrentCall ==
    /\ lock = NoTrack
    /\ last' = NoObs
    /\ UNCHANGED <<tracks, lock, pc, preload, mode, inbound, events, started,
                   userModified, rawPlaying>>

\* pause / resume / skip: a command to the front track, Ok(()) when empty.
FrontCommand(cmd) ==
    /\ lock = NoTrack
    /\ inbound' = IF tracks = <<>> THEN inbound ELSE Send(inbound, Head(tracks), cmd)
    /\ last' = NoObs
    /\ UNCHANGED <<tracks, lock, pc, preload, mode, events, started, userModified, rawPlaying>>

Pause == FrontCommand("pause")

Resume == FrontCommand("play")

\* A faulty skip() that removes the front track itself instead of leaving that
\* to the End handler: the fault C14 rules out.
Skip_PopsFront ==
    /\ lock = NoTrack
    /\ inbound' = IF tracks = <<>> THEN inbound ELSE Send(inbound, Head(tracks), "stop")
    /\ tracks' = IF tracks = <<>> THEN tracks ELSE Tail(tracks)
    /\ last' = NoObs
    /\ UNCHANGED <<lock, pc, preload, mode, events, started, userModified, rawPlaying>>

Skip == FrontCommand("stop")

\* `for track in inner.tracks.drain(..) { let _ = track.stop(); }`
RECURSIVE StopEach(_, _)
StopEach(ib, q) ==
    IF q = <<>> THEN ib ELSE StopEach(Send(ib, Head(q), "stop"), Tail(q))

\* A faulty stop() that clears the queue and stops none of its tracks: the
\* fault C3 rules out.
Stop_ClearsOnly ==
    /\ lock = NoTrack
    /\ tracks' = <<>>
    /\ last' = NoObs
    /\ UNCHANGED <<lock, pc, preload, mode, inbound, events, started, userModified, rawPlaying>>

\* A faulty stop() that clears the queue and stops only its front track: the
\* fault C13 rules out.
Stop_FrontOnly ==
    /\ lock = NoTrack
    /\ inbound' = IF tracks = <<>> THEN inbound ELSE Send(inbound, Head(tracks), "stop")
    /\ tracks' = <<>>
    /\ last' = NoObs
    /\ UNCHANGED <<lock, pc, preload, mode, events, started, userModified, rawPlaying>>

\* stop(): drains the queue, stopping every track in it.
Stop ==
    /\ lock = NoTrack
    /\ inbound' = StopEach(inbound, tracks)
    /\ tracks' = <<>>
    /\ last' = NoObs
    /\ UNCHANGED <<lock, pc, preload, mode, events, started, userModified, rawPlaying>>

\* VecDeque::remove(index) on a 1-based sequence: the queue without the entry.
Remove(q, i) ==
    IF i > Len(q) THEN q ELSE SubSeq(q, 1, i - 1) \o SubSeq(q, i + 1, Len(q))

\* modify_queue(func): func's effect on the queue, under the lock.
ModifyQueue(newTracks) ==
    /\ lock = NoTrack
    /\ tracks' = newTracks
    /\ userModified' = (userModified \/ newTracks # tracks)
    /\ rawPlaying' = rawPlaying
    /\ last' = NoObs
    /\ UNCHANGED <<lock, pc, preload, mode, inbound, events, started>>

\* What VecDeque::remove(index) returns: the entry, or None (NoTrack).
Removed(q, i) == IF i > Len(q) THEN NoTrack ELSE q[i]

\* A faulty dequeue that starts the entry which becomes the front when it
\* removes the front one: the fault C24 rules out.
Dequeue_PlaysNewHead(index) ==
    /\ lock = NoTrack
    /\ tracks' = Remove(tracks, index)
    /\ inbound' = IF index = 1 /\ Len(tracks) >= 2
                  THEN Send(inbound, tracks[2], "play") ELSE inbound
    /\ userModified' = (userModified \/ Remove(tracks, index) # tracks)
    /\ last' = NoObs
    /\ UNCHANGED <<lock, pc, preload, mode, events, started, rawPlaying>>

\* dequeue(index): index counts from 1 here, from 0 in the code.
Dequeue(index) == ModifyQueue(Remove(tracks, index))

(***************************************************************************)
(* CryptoMode: sizes of the nonce and of the bytes around the payload.     *)
(***************************************************************************)
\* A faulty nonce_size that stores the Lite nonce in full width: the fault
\* C7 rules out.
nonce_size_LiteFullWidth(m) ==
    IF m = "Normal" THEN RtpMinimumPacketSize ELSE NONCE_SIZE

nonce_size(m) ==
    IF m = "Normal" THEN RtpMinimumPacketSize
    ELSE IF m = "Suffix" THEN NONCE_SIZE
    ELSE LiteNonceSize

payload_prefix_len == TAG_SIZE

payload_suffix_len(m) == IF m = "Normal" THEN 0 ELSE nonce_size(m)

payload_overhead(m) == payload_prefix_len + payload_suffix_len(m)

\* Capacity of the payload area of the packet buffer.
BodyCap == TAG_SIZE + MaxPlain + NONCE_SIZE + Slack

Zeros(n) == [i \in 1..n |-> 0]

Header(pkt) == SubSeq(pkt, 1, RtpMinimumPacketSize)

Body(pkt) == SubSeq(pkt, RtpMinimumPacketSize + 1, Len(pkt))

(***************************************************************************)
(* The XSalsa20Poly1305 cipher of the xsalsa20poly1305 crate, abstracted   *)
(* as a stream cipher whose key stream and tag depend on every byte of     *)
(* the key and of the 24-byte nonce, position included.                    *)
(***************************************************************************)
\* A digest of s[lo..hi] that depends on every byte and its position.
RECURSIVE MixRange(_, _, _)
MixRange(s, lo, hi) ==
    IF lo > hi THEN 0
    ELSE IF lo = hi THEN s[lo] + 1
    ELSE LET mid == (lo + hi) \div 2
         IN (MixRange(s, lo, mid) * 127 + MixRange(s, mid + 1, hi) * 31 + hi - lo) % 65521

Mix(h, s) == (h * 257 + MixRange(s, 1, Len(s)) + Len(s)) % 65521

KeyStream(k, nonce, i) == (Mix(k, nonce) + 7 * i) % Byte

CipherEncrypt(k, nonce, buf) ==
    [i \in 1..Len(buf) |-> (buf[i] + KeyStream(k, nonce, i)) % Byte]

CipherTag(k, nonce, ct) ==
    [j \in 1..TAG_SIZE |-> (Mix(Mix(k, nonce), ct) + j) % Byte]

AuthFail == <<-1>>

CipherDecrypt(k, nonce, tag, ct) ==
    IF tag # CipherTag(k, nonce, ct) THEN AuthFail
    ELSE [i \in 1..Len(ct) |-> (ct[i] - KeyStream(k, nonce, i)) % Byte]

(***************************************************************************)
(* CryptoMode::nonce_slice and CryptoMode::encrypt_in_place.               *)
(***************************************************************************)
\* A faulty nonce_slice that hands back the whole body, nonce location
\* included, as the part to encrypt: the fault C6 rules out.
nonce_slice_Untruncated(m, header, body) ==
    IF m = "Normal" THEN [ok |-> TRUE, nonce |-> header, left |-> Len(body)]
    ELSE IF Len(body) < payload_suffix_len(m)
         THEN [ok |-> FALSE, nonce |-> <<>>, left |-> 0]
         ELSE LET split == Len(body) - payload_suffix_len(m)
              IN [ok |-> TRUE,
                  nonce |-> SubSeq(body, split + 1, split + nonce_size(m)),
                  left |-> Len(body)]

\* A faulty nonce_slice without the length test of the suffixed modes: the
\* fault C20 rules out.
nonce_slice_NoLengthTest(m, header, body) ==
    IF m = "Normal" THEN [ok |-> TRUE, nonce |-> header, left |-> Len(body)]
    ELSE IF Len(body) < payload_suffix_len(m)
         THEN [ok |-> TRUE, nonce |-> <<>>, left |-> 0]
         ELSE LET split == Len(body) - payload_suffix_len(m)
              IN [ok |-> TRUE,
                  nonce |-> SubSeq(body, split + 1, split + nonce_size(m)),
                  left |-> split]

\* Ok((nonce bytes, body_left)) or Err(CryptoError); body is body[..payload_len].
nonce_slice(m, header, body) ==
    IF m = "Normal" THEN [ok |-> TRUE, nonce |-> header, left |-> Len(body)]
    ELSE IF Len(body) < payload_suffix_len(m)
         THEN [ok |-> FALSE, nonce |-> <<>>, left |-> 0]
         ELSE LET split == Len(body) - payload_suffix_len(m)
              IN [ok |-> TRUE,
                  nonce |-> SubSeq(body, split + 1, split + nonce_size(m)),
                  left |-> split]

\* A faulty padding that puts the zero bytes in front of the nonce bytes: the
\* fault C21 rules out.
NonceFrom_LeadingZeros(m, slice) ==
    IF Len(slice) = NONCE_SIZE THEN slice
    ELSE Zeros(NONCE_SIZE - nonce_size(m)) \o slice

\* `let mut nonce = Nonce::default(); ... nonce[..self.nonce_size()].copy_from_slice(..)`
NonceFrom(m, slice) ==
    IF Len(slice) = NONCE_SIZE THEN slice
    ELSE slice \o Zeros(NONCE_SIZE - nonce_size(m))

\* A faulty encrypt_in_place that passes the whole body to nonce_slice instead
\* of body[..payload_len]: the fault C8 rules out.
encrypt_in_place_WholeBody(m, pkt, k, payload_len) ==
    LET header == Header(pkt)
        body == Body(pkt)
    IN IF payload_len > Len(body) THEN [result |-> "Panic", packet |-> pkt]
       ELSE LET ns == nonce_slice(m, header, body)
            IN IF ~ns.ok THEN [result |-> "Err", packet |-> pkt]
               ELSE IF ns.left < TAG_SIZE THEN [result |-> "Panic", packet |-> pkt]
               ELSE LET nonce == NonceFrom(m, ns.nonce)
                        ct == CipherEncrypt(k, nonce, SubSeq(body, TAG_SIZE + 1, ns.left))
                        tag == CipherTag(k, nonce, ct)
                    IN [result |-> "Ok",
                        packet |-> header \o tag \o ct
                                   \o SubSeq(body, ns.left + 1, Len(body))]

\* A faulty encrypt_in_place that drops the detached tag instead of copying it
\* in front of the ciphertext: the fault C22 rules out.
encrypt_in_place_TagUnwritten(m, pkt, k, payload_len) ==
    LET header == Header(pkt)
        body == Body(pkt)
    IN IF payload_len > Len(body) THEN [result |-> "Panic", packet |-> pkt]
       ELSE LET ns == nonce_slice(m, header, SubSeq(body, 1, payload_len))
            IN IF ~ns.ok THEN [result |-> "Err", packet |-> pkt]
               ELSE IF Len(ns.nonce) # NONCE_SIZE /\ Len(ns.nonce) # nonce_size(m)
                    THEN [result |-> "Panic", packet |-> pkt]
               ELSE IF ns.left < TAG_SIZE THEN [result |-> "Panic", packet |-> pkt]
               ELSE LET nonce == NonceFrom(m, ns.nonce)
                        ct == CipherEncrypt(k, nonce, SubSeq(body, TAG_SIZE + 1, ns.left))
                    IN [result |-> "Ok",
                        packet |-> header \o SubSeq(body, 1, TAG_SIZE) \o ct
                                   \o SubSeq(body, ns.left + 1, Len(body))]

\* The outcome and the packet buffer after encrypt_in_place(packet, cipher, payload_len).
encrypt_in_place(m, pkt, k, payload_len) ==
    LET header == Header(pkt)
        body == Body(pkt)
    IN IF payload_len > Len(body) THEN [result |-> "Panic", packet |-> pkt]
       ELSE LET ns == nonce_slice(m, header, SubSeq(body, 1, payload_len))
            IN IF ~ns.ok THEN [result |-> "Err", packet |-> pkt]
               ELSE IF Len(ns.nonce) # NONCE_SIZE /\ Len(ns.nonce) # nonce_size(m)
                    THEN [result |-> "Panic", packet |-> pkt]
               ELSE IF ns.left < TAG_SIZE THEN [result |-> "Panic", packet |-> pkt]
               ELSE LET nonce == NonceFrom(m, ns.nonce)
                        ct == CipherEncrypt(k, nonce, SubSeq(body, TAG_SIZE + 1, ns.left))
                        tag == CipherTag(k, nonce, ct)
                    IN [result |-> "Ok",
                        packet |-> header \o tag \o ct
                                   \o SubSeq(body, ns.left + 1, Len(body))]

\* The receiving side: the bytes after the header up to payload_len are the
\* tag, the ciphertext and the mode's trailing nonce; the nonce is the header
\* (Normal) or that trailing suffix (Suffix, Lite), padded as the sender pads.
NonceRegion(m, pkt, payload_len) ==
    IF m = "Normal" THEN Header(pkt)
    ELSE IF m = "Suffix"
         THEN SubSeq(Body(pkt), payload_len - NONCE_SIZE + 1, payload_len)
         ELSE SubSeq(Body(pkt), payload_len - LiteNonceSize + 1, payload_len)

CiphertextRegion(m, pkt, payload_len) ==
    IF m = "Normal" THEN SubSeq(Body(pkt), TAG_SIZE + 1, payload_len)
    ELSE SubSeq(Body(pkt), TAG_SIZE + 1,
                payload_len - Len(NonceRegion(m, pkt, payload_len)))

\* A packet too short to hold the tag and the mode's nonce is rejected.
decrypt_in_place(m, pkt, k, payload_len) ==
    IF payload_len < TAG_SIZE + (IF m = "Suffix" THEN NONCE_SIZE
                                 ELSE IF m = "Lite" THEN LiteNonceSize ELSE 0)
    THEN AuthFail
    ELSE CipherDecrypt(k, NonceFrom(m, NonceRegion(m, pkt, payload_len)),
                       SubSeq(Body(pkt), 1, TAG_SIZE),
                       CiphertextRegion(m, pkt, payload_len))

(***************************************************************************)
(* CryptoState::write_packet_nonce.                                        *)
(***************************************************************************)
\* A u32 is kept as its two 16-bit halves, <<high, low>>: the value is
\* high * 2^16 + low, and Wrapping<u32> addition carries from low into high
\* and drops the carry out of high.
U32(high, low) == <<high, low>>

WrappingAdd(i, n) ==
    U32((i[1] + (i[2] + n) \div Half) % Half, (i[2] + n) % Half)

\* write_u32::<NetworkEndian>
BigEndian32(i) == <<i[1] \div Byte, i[1] % Byte, i[2] \div Byte, i[2] % Byte>>

ReadBigEndian32(b) == U32(b[1] * Byte + b[2], b[3] * Byte + b[4])

\* rand::thread_rng().fill(..): one of the fills the generator may produce.
RandomFill(seed, n) == [i \in 1..n |-> (seed + 37 * i) % Byte]

\* A faulty write that starts one byte too far: the fault C19 rules out.
WriteBody_OneTooFar(pkt, at, bytes) ==
    [i \in 1..Len(pkt) |->
        IF i > RtpMinimumPacketSize + at + 1 /\ i <= RtpMinimumPacketSize + at + 1 + Len(bytes)
        THEN bytes[i - RtpMinimumPacketSize - at - 1] ELSE pkt[i]]

\* Overwrites body[at .. at + Len(bytes)) of the packet buffer.
WriteBody(pkt, at, bytes) ==
    [i \in 1..Len(pkt) |->
        IF i > RtpMinimumPacketSize + at /\ i <= RtpMinimumPacketSize + at + Len(bytes)
        THEN bytes[i - RtpMinimumPacketSize - at] ELSE pkt[i]]

\* A write_packet_nonce whose `i += Wrapping(1)` reaches the CryptoState, which
\* then holds the next nonce: what C18 rules out.
write_packet_nonce_StoresNext(st, pkt, payload_end, seed) ==
    LET m == st.kind
        endpoint == payload_end + payload_suffix_len(m)
    IN [endpoint |-> endpoint,
        state |-> IF m = "Lite" THEN [st EXCEPT !.counter = WrappingAdd(@, 1)] ELSE st,
        packet |-> IF m = "Suffix"
                   THEN WriteBody(pkt, payload_end, RandomFill(seed, NONCE_SIZE))
                   ELSE IF m = "Lite"
                   THEN WriteBody(pkt, payload_end, BigEndian32(st.counter))
                   ELSE pkt]

\* `Self::Lite(mut i)` binds a copy of the counter: `i += Wrapping(1)` updates
\* the copy, the CryptoState keeps its value.
write_packet_nonce(st, pkt, payload_end, seed) ==
    LET m == st.kind
        endpoint == payload_end + payload_suffix_len(m)
    IN [endpoint |-> endpoint,
        state |-> st,
        packet |-> IF m = "Suffix"
                   THEN WriteBody(pkt, payload_end, RandomFill(seed, NONCE_SIZE))
                   ELSE IF m = "Lite"
                   THEN WriteBody(pkt, payload_end, BigEndian32(st.counter))
                   ELSE pkt]

(***************************************************************************)
(* The crypto state machine: one session's CryptoState and packet buffer.  *)
(***************************************************************************)
Modes == {"Normal", "Suffix", "Lite"}

\* Values rand::random::<u32>() may give the Lite counter.
CounterSeeds == {U32(0, 0), U32(0, 1000), U32(0, Half - 1), U32(Half - 1, Half - 2),
                 U32(Half - 1, Half - 1)}

Keys == {3, 77}

Seeds == {5, 200}

PlainBytes == {7, 255}

Fills == {0, 170}

Plaintexts == UNION {[1..n -> PlainBytes] : n \in 0..MaxPlain}

\* A 12-byte RTP header: version, payload type 0x78, sequence, timestamp, ssrc.
RtpHeader(seq) ==
    <<128, 120, (seq \div 256) % Byte, seq % Byte,
      0, 0, ((960 * seq) \div 256) % Byte, (960 * seq) % Byte, 0, 0, 190, 239>>

\* CryptoState::from(mode)
CryptoStateFrom(m, random) == [kind |-> m, counter |-> IF m = "Lite" THEN random ELSE U32(0, 0)]

CryptoIdle ==
    /\ cstate = CryptoStateFrom("Normal", U32(0, 0))
    /\ c0 = U32(0, 0)
    /\ calls = 0
    /\ key = 0
    /\ packet = <<>>
    /\ plain = <<>>
    /\ payloadEnd = 0
    /\ payloadLen = 0
    /\ prev = <<>>
    /\ phase = "idle"
    /\ result = "none"
    /\ recovered = <<>>

CryptoInit ==
    /\ \E m \in Modes : \E r \in CounterSeeds :
          /\ cstate = CryptoStateFrom(m, r)
          /\ c0 = CryptoStateFrom(m, r).counter
    /\ calls = 0
    /\ key \in Keys
    /\ packet = Zeros(RtpMinimumPacketSize + BodyCap)
    /\ plain = <<>>
    /\ payloadEnd = 0
    /\ payloadLen = 0
    /\ prev = Zeros(RtpMinimumPacketSize + BodyCap)
    /\ phase = "idle"
    /\ result = "none"
    /\ recovered = <<>>

\* The mixer lays out the next packet: header, room for the tag, the payload.
FillPacket(pl, fill) ==
    /\ phase \in {"idle", "encrypted", "received"}
    /\ phase = "encrypted" => result # "Ok"
    /\ calls < MaxPackets
    /\ packet' = RtpHeader(calls) \o [i \in 1..TAG_SIZE |-> fill] \o pl
                 \o [i \in 1..(BodyCap - TAG_SIZE - Len(pl)) |-> fill]
    /\ plain' = pl
    /\ payloadEnd' = TAG_SIZE + Len(pl)
    /\ payloadLen' = 0
    /\ prev' = packet
    /\ phase' = "filled"
    /\ result' = "none"
    /\ recovered' = <<>>
    /\ UNCHANGED <<cstate, c0, calls, key>>

WritePacketNonce(seed) ==
    /\ phase = "filled"
    /\ LET r == write_packet_nonce(cstate, packet, payloadEnd, seed)
       IN /\ cstate' = r.state
          /\ packet' = r.packet
          /\ payloadLen' = r.endpoint
    /\ prev' = packet
    /\ calls' = calls + 1
    /\ phase' = "nonced"
    /\ UNCHANGED <<c0, key, plain, payloadEnd, result, recovered>>

\* payload_len arguments tried: the endpoint write_packet_nonce returned, and
\* lengths that are too short or exceed the buffer.
PayloadLens == {payloadLen, 0, LiteNonceSize - 1, TAG_SIZE + 1, NONCE_SIZE - 1, BodyCap + 1}

EncryptInPlace(len) ==
    /\ phase = "nonced"
    /\ LET r == encrypt_in_place(cstate.kind, packet, key, len)
       IN /\ packet' = r.packet
          /\ result' = r.result
    /\ payloadLen' = len
    /\ prev' = packet
    /\ phase' = "encrypted"
    /\ UNCHANGED <<cstate, c0, calls, key, plain, payloadEnd, recovered>>

Receive ==
    /\ phase = "encrypted"
    /\ result = "Ok"
    /\ recovered' = decrypt_in_place(cstate.kind, packet, key, payloadLen)
    /\ phase' = "received"
    /\ UNCHANGED <<cstate, c0, calls, key, packet, plain, payloadEnd, payloadLen,
                   prev, result>>

(***************************************************************************)
(* The mixer's cycle.  src/benches/mixing-task.rs builds the mixers and    *)
(* runs them; what one cycle does follows section 4.1 of the               *)
(* specification.                                                          *)
(***************************************************************************)
\* The timestamp advances by one 20 ms frame of 48 kHz sample pairs a cycle.
TimestampStep == 960

\* The number of silence packets sent once no track is audible.
SilenceFrames == 5

\* The Opus silence frame.
SILENT_FRAME == <<248, 255, 254>>

\* The Opus frame standing for the encoded mix of n tracks.
EncodedFrame(n) == <<120, n>>

\* culling: mixer_float_drop(15, ..), then five calls of cycle().
CullingTracks == 15

CullingCycles == 5

\* tracks::create_player(Input::Live(..)): a playable track set to play.
Player(frames) == [frames |-> frames, play |-> "Play"]

\* A dummied mixer that was given no connection: the fault C16 rules out.
dummied_mixer_Unconnected(seq, ts) ==
    [sequence |-> seq, timestamp |-> ts, silence_frames |-> SilenceFrames,
     conn_active |-> FALSE, mixing |-> [i \in {} |-> Player(0)]]

\* Mixer::new with the fake connection installed; the RTP counters start at
\* values of the session's choosing.
dummied_mixer(seq, ts) ==
    [sequence |-> seq, timestamp |-> ts, silence_frames |-> SilenceFrames,
     conn_active |-> TRUE, mixing |-> [i \in {} |-> Player(0)]]

\* Tracks of ten frames each, as mixer_float makes them: with these no track
\* is culled within five cycles, which C17 rules out for the culling bench.
make_sine_TenFrames(i) == 10

\* make_sine((i / 5) * STEREO_FRAME_SIZE, true): the frames of audio of track i.
make_sine(i) == i \div 5

mixer_float_drop(num_tracks, seq, ts) ==
    [dummied_mixer(seq, ts) EXCEPT
        !.mixing = [i \in 0..(num_tracks - 1) |-> Player(make_sine(i))]]

\* A track is mixable iff it is set to play (every track here is Playable).
Mixable(mx) == {i \in DOMAIN mx : mx[i].play = "Play"}

\* The mixable tracks that yield less than a full frame: they end this cycle.
Exhausted(mx) == {i \in Mixable(mx) : mx[i].frames = 0}

\* The payload of this cycle's packet, if one is sent: the encoded mix, or a
\* silence frame while the countdown runs.
Payload(sf, mx) ==
    IF Mixable(mx) # {} THEN <<EncodedFrame(Cardinality(Mixable(mx)))>>
    ELSE IF sf > 0 THEN <<SILENT_FRAME>>
    ELSE <<>>

\* The silence countdown: rearmed while tracks are audible, one less with
\* every silence packet.
NextSilence(sf, mx) ==
    IF Mixable(mx) # {} THEN SilenceFrames
    ELSE IF sf > 0 THEN sf - 1
    ELSE 0

\* A sequence counter held in a field wider than 16 bits: the fault C15
\* rules out.
NextSequence_NoWrap(seq, emitted) == IF emitted THEN seq + 1 ELSE seq

\* `sequence += 1` (wrapping) with every emitted packet.
NextSequence(seq, emitted) == IF emitted THEN (seq + 1) % Half ELSE seq

\* One cycle of the mixer m: the mixer after it, the packets pushed onto the
\* UDP channel, and the tracks whose End event is posted.
cycle(m) ==
    LET payload == Payload(m.silence_frames, m.mixing)
        emitted == payload # <<>> /\ m.conn_active
        gone == Exhausted(m.mixing)
    IN [mixer |-> [sequence |-> NextSequence(m.sequence, emitted),
                   timestamp |-> WrappingAdd(m.timestamp, TimestampStep),
                   silence_frames |-> NextSilence(m.silence_frames, m.mixing),
                   conn_active |-> m.conn_active,
                   mixing |-> [i \in (DOMAIN m.mixing) \ gone |->
                                  IF i \in Mixable(m.mixing)
                                  THEN [m.mixing[i] EXCEPT !.frames = @ - 1]
                                  ELSE m.mixing[i]]],
        sent |-> IF emitted
                 THEN <<[sequence |-> m.sequence, timestamp |-> m.timestamp,
                         payload |-> payload[1]]>>
                 ELSE <<>>,
        ended |-> gone]

\* The mixer as one record.
TheMixer ==
    [sequence |-> sequence, timestamp |-> timestamp, silence_frames |-> silence_frames,
     conn_active |-> conn_active, mixing |-> mixing]

\* The state of the mixer variables when the mixer is m.
MixerIs(m) ==
    /\ sequence = m.sequence
    /\ timestamp = m.timestamp
    /\ silence_frames = m.silence_frames
    /\ conn_active = m.conn_active
    /\ mixing = m.mixing

\* Values the session may give the RTP counters at its start.
SequenceSeeds == {0, Half - 2}

TimestampSeeds == {U32(0, 0), U32(Half - 1, Half - 2 * TimestampStep)}

MixerIdle ==
    /\ bench = "none"
    /\ MixerIs(dummied_mixer(0, U32(0, 0)))
    /\ endEvents = {}
    /\ udp_tx = <<>>
    /\ cycles = 0
    /\ added = 0

MixerInit ==
    /\ bench \in {"dummied", "culling"}
    /\ \E seq \in SequenceSeeds : \E ts \in TimestampSeeds :
          MixerIs(IF bench = "culling"
                  THEN mixer_float_drop(CullingTracks, seq, ts)
                  ELSE dummied_mixer(seq, ts))
    /\ endEvents = {}
    /\ udp_tx = <<>>
    /\ cycles = 0
    /\ added = IF bench = "culling" THEN CullingTracks ELSE 0

\* input.0.cycle()
Cycle ==
    /\ cycles < MaxCycles
    /\ LET r == cycle(TheMixer)
       IN /\ sequence' = r.mixer.sequence
          /\ timestamp' = r.mixer.timestamp
          /\ silence_frames' = r.mixer.silence_frames
          /\ conn_active' = r.mixer.conn_active
          /\ mixing' = r.mixer.mixing
          /\ udp_tx' = udp_tx \o r.sent
          /\ endEvents' = endEvents \cup r.ended
    /\ cycles' = cycles + 1
    /\ UNCHANGED <<bench, added>>

\* out.0.add_track(track), between two cycles of a dummied mixer.
MixAddTrack(frames) ==
    /\ bench = "dummied"
    /\ added < MaxMixTracks
    /\ mixing' = [i \in (DOMAIN mixing) \cup {added} |->
                     IF i = added THEN Player(frames) ELSE mixing[i]]
    /\ added' = added + 1
    /\ UNCHANGED <<bench, sequence, timestamp, silence_frames, conn_active,
                   endEvents, udp_tx, cycles>>

\* SetTrack(pause) and SetTrack(play) for a track of a dummied mixer, drained
\* at the start of the next cycle.
MixSetPlay(i, play) ==
    /\ bench = "dummied"
    /\ i \in DOMAIN mixing
    /\ mixing[i].play # play
    /\ mixing' = [mixing EXCEPT ![i].play = play]
    /\ UNCHANGED <<bench, sequence, timestamp, silence_frames, conn_active,
                   endEvents, udp_tx, cycles, added>>

MixPause(i) == MixSetPlay(i, "Pause")

MixPlay(i) == MixSetPlay(i, "Play")

(***************************************************************************)
(* The preload time of add() and the event handlers add_raw registers.     *)
(* A Duration is whole seconds and nanoseconds below 10^9; an Option is a  *)
(* record that says whether it holds a value.                              *)
(***************************************************************************)
Duration(secs, nanos) == [secs |-> secs, nanos |-> nanos]

\* Duration::default()
ZERO == Duration(0, 0)

None == [some |-> FALSE, val |-> ZERO]

Some(v) == [some |-> TRUE, val |-> v]

\* Duration::checked_sub: None when the difference would be negative.
checked_sub(a, b) ==
    IF a.secs < b.secs THEN None
    ELSE IF a.nanos >= b.nanos
         THEN Some(Duration(a.secs - b.secs, a.nanos - b.nanos))
         ELSE IF a.secs - b.secs >= 1
              THEN Some(Duration(a.secs - b.secs - 1, a.nanos + 1000000000 - b.nanos))
              ELSE None

unwrap_or_default(o) == IF o.some THEN o.val ELSE ZERO

\* The seconds before its end at which a track's SongPreloader is to fire.
PreloadLead == 5

\* A faulty delay computed by plain subtraction: the fault C23 rules out.
PreloadDelay_Unchecked(time) == Duration(time.secs - PreloadLead, time.nanos)

\* `time.checked_sub(Duration::from_secs(5)).unwrap_or_default()`
PreloadDelay(time) == unwrap_or_default(checked_sub(time, Duration(PreloadLead, 0)))

\* A track's input: Lazy(rec), Live(_, Some(rec)) or Live(_, None), with what
\* rec.aux_metadata().await gives: an error, or metadata with or without a
\* duration.
Durations == {Duration(secs, nanos) : secs \in 0..MaxSecs, nanos \in {0, 1, 999999999}}

OptionDurations == {None} \cup {Some(d) : d \in Durations}

AuxMetadata == {[ok |-> FALSE, duration |-> None]}
                  \cup {[ok |-> TRUE, duration |-> o] : o \in OptionDurations}

Inputs == {[kind |-> k, aux |-> a] : k \in {"Lazy", "LiveRec", "Live"}, a \in AuxMetadata}

\* get_preload_time(track): the duration the metadata reports, if the input
\* has a compose step to ask and the lookup succeeds.
get_preload_time(inp) ==
    LET meta == IF inp.kind \in {"Lazy", "LiveRec"} /\ inp.aux.ok
                THEN Some(inp.aux) ELSE [some |-> FALSE, val |-> inp.aux]
    IN IF meta.some THEN meta.val.duration ELSE None

\* The add_event calls of add_raw: the QueueHandler on End, then the
\* SongPreloader on Delayed(..) when a preload time is given.
AddRawEvents(time) ==
    <<[event |-> "End", delay |-> ZERO, handler |-> "QueueHandler"]>>
    \o IF time.some
       THEN <<[event |-> "Delayed", delay |-> PreloadDelay(time.val),
               handler |-> "SongPreloader"]>>
       ELSE <<>>

AddCalls == {[api |-> "add", track |-> i, given |-> None] : i \in Inputs}

AddRawCalls == {[api |-> "add_raw", track |-> [kind |-> "Live", aux |-> [ok |-> FALSE, duration |-> None]],
                 given |-> o] : o \in OptionDurations}

PreloadIdle ==
    /\ call = [api |-> "none", track |-> [kind |-> "Live", aux |-> [ok |-> FALSE, duration |-> None]],
               given |-> None]
    /\ preload_time = None
    /\ add_events = <<>>
    /\ addpc = "idle"

PreloadInit ==
    /\ call \in AddCalls \cup AddRawCalls
    /\ preload_time = None
    /\ add_events = <<>>
    /\ addpc = "new"

\* add(): `let preload_time = Self::get_preload_time(&mut track).await;`
AddGetPreloadTime ==
    /\ addpc = "new"
    /\ call.api = "add"
    /\ preload_time' = get_preload_time(call.track)
    /\ addpc' = "timed"
    /\ UNCHANGED <<call, add_events>>

\* add_raw(handle, preload_time), called by add() or directly.
AddRawInstall ==
    /\ \/ call.api = "add" /\ addpc = "timed"
       \/ call.api = "add_raw" /\ addpc = "new"
    /\ LET time == IF call.api = "add" THEN preload_time ELSE call.given
       IN /\ preload_time' = time
          /\ add_events' = AddRawEvents(time)
    /\ addpc' = "added"
    /\ UNCHANGED call

(***************************************************************************)
(* Specifications.                                                         *)
(***************************************************************************)
\* The inputs queued: only the first one's metadata reports a duration, and
\* only the second one may come as a raw handle that is already playing.
HasDuration(t) == t = 1

RawHandle(t) == t = 2

QueueInit ==
    /\ tracks = <<>>
    /\ lock = NoTrack
    /\ pc = [t \in Tracks |-> "new"]
    /\ preload = [t \in Tracks |-> "none"]
    /\ mode = [t \in Tracks |-> "None"]
    /\ inbound = NoMessages
    /\ events = <<>>
    /\ last = NoObs
    /\ started = {}
    /\ userModified = FALSE
    /\ rawPlaying = FALSE
    /\ skipped = {}
    /\ skipFlip = FALSE
    /\ dequeued = NoTrack
    /\ dqIndex = 0
    /\ playAsked = {}

Init == QueueInit /\ CryptoIdle /\ MixerIdle /\ PreloadIdle

Next ==
    \/ \E t \in Tracks : AddBegin(t) /\ UNCHANGED <<cvars, hvars, mvars, pvars, ovars>>
    \/ \E t \in Tracks : AddRawLock(t, HasDuration(t)) /\ UNCHANGED <<cvars, hvars, mvars, pvars, ovars>>
    \/ \E t \in Tracks : RawHandle(t) /\ AddRawPlaying(t) /\ UNCHANGED <<cvars, hvars, mvars, pvars, ovars>>
    \/ \E t \in Tracks : AddRawCritical(t) /\ UNCHANGED <<cvars, hvars, mvars, pvars, ovars>>
    \/ \E t \in Tracks : AddRawPlay(t) /\ UNCHANGED <<cvars, hvars, mvars, pvars, ovars>>
    \/ CurrentCall /\ UNCHANGED <<cvars, hvars, mvars, pvars, ovars>>
    \/ Pause /\ UNCHANGED <<cvars, hvars, mvars, pvars, ovars>>
    \/ Resume /\ UNCHANGED <<cvars, hvars, mvars, pvars, ovars>>
    \/ Skip /\ UNCHANGED <<cvars, hvars, mvars, pvars, ovars>>
    \/ Stop /\ UNCHANGED <<cvars, hvars, mvars, pvars, ovars>>
    \/ \E i \in 1..NumTracks : Dequeue(i) /\ UNCHANGED <<cvars, hvars, mvars, pvars, ovars>>
    \/ QueueHandlerAct /\ UNCHANGED <<cvars, hvars, mvars, pvars, ovars>>
    \/ \E t \in Tracks : SongPreloaderAct(t) /\ UNCHANGED <<cvars, hvars, mvars, pvars, ovars>>
    \/ MixerTick /\ UNCHANGED <<cvars, hvars, mvars, pvars, ovars>>
    \/ \E t \in Tracks : TrackEnds(t) /\ UNCHANGED <<cvars, hvars, mvars, pvars, ovars>>
    \/ \E t \in Tracks : HandleStop(t) /\ UNCHANGED <<cvars, hvars, mvars, pvars, ovars>>

Spec == Init /\ [][Next]_vars

\* The history of skip(): every call flips skipFlip, and a call whose stop
\* command went out adds the front track it stopped.
SkipHistory ==
    /\ skipFlip' = ~skipFlip
    /\ skipped' = IF inbound' # inbound THEN skipped \cup {Current} ELSE skipped

SkipNext ==
    \/ \E t \in Tracks : AddBegin(t) /\ UNCHANGED <<cvars, hvars, mvars, pvars, ovars>>
    \/ \E t \in Tracks : AddRawLock(t, HasDuration(t)) /\ UNCHANGED <<cvars, hvars, mvars, pvars, ovars>>
    \/ \E t \in Tracks : RawHandle(t) /\ AddRawPlaying(t) /\ UNCHANGED <<cvars, hvars, mvars, pvars, ovars>>
    \/ \E t \in Tracks : AddRawCritical(t) /\ UNCHANGED <<cvars, hvars, mvars, pvars, ovars>>
    \/ \E t \in Tracks : AddRawPlay(t) /\ UNCHANGED <<cvars, hvars, mvars, pvars, ovars>>
    \/ CurrentCall /\ UNCHANGED <<cvars, hvars, mvars, pvars, ovars>>
    \/ Pause /\ UNCHANGED <<cvars, hvars, mvars, pvars, ovars>>
    \/ Resume /\ UNCHANGED <<cvars, hvars, mvars, pvars, ovars>>
    \/ Skip /\ SkipHistory /\ UNCHANGED <<cvars, mvars, pvars, ovars>>
    \/ Stop /\ UNCHANGED <<cvars, hvars, mvars, pvars, ovars>>
    \/ \E i \in 1..NumTracks : Dequeue(i) /\ UNCHANGED <<cvars, hvars, mvars, pvars, ovars>>
    \/ QueueHandlerAct /\ UNCHANGED <<cvars, hvars, mvars, pvars, ovars>>
    \/ \E t \in Tracks : SongPreloaderAct(t) /\ UNCHANGED <<cvars, hvars, mvars, pvars, ovars>>
    \/ MixerTick /\ UNCHANGED <<cvars, hvars, mvars, pvars, ovars>>
    \/ \E t \in Tracks : TrackEnds(t) /\ UNCHANGED <<cvars, hvars, mvars, pvars, ovars>>
    \/ \E t \in Tracks : HandleStop(t) /\ UNCHANGED <<cvars, hvars, mvars, pvars, ovars>>

\* The mixer thread ticks every 20 ms, the event loop runs the handler of every
\* event it is sent, and a thread inside add_raw's critical section, which has
\* no suspension point, leaves it.
SkipFairness ==
    /\ WF_vars(MixerTick /\ UNCHANGED <<cvars, hvars, mvars, pvars, ovars>>)
    /\ WF_vars(QueueHandlerAct /\ UNCHANGED <<cvars, hvars, mvars, pvars, ovars>>)
    /\ WF_vars(\E t \in Tracks : AddRawCritical(t) /\ UNCHANGED <<cvars, hvars, mvars, pvars, ovars>>)

SkipSpec == Init /\ [][SkipNext]_vars /\ SkipFairness

CryptoSpecInit == QueueInit /\ CryptoInit /\ MixerIdle /\ PreloadIdle

CryptoNext ==
    \/ \E pl \in Plaintexts : \E f \in Fills : FillPacket(pl, f) /\ UNCHANGED <<qvars, hvars, mvars, pvars, ovars>>
    \/ \E seed \in Seeds : WritePacketNonce(seed) /\ UNCHANGED <<qvars, hvars, mvars, pvars, ovars>>
    \/ \E len \in PayloadLens : EncryptInPlace(len) /\ UNCHANGED <<qvars, hvars, mvars, pvars, ovars>>
    \/ Receive /\ UNCHANGED <<qvars, hvars, mvars, pvars, ovars>>

CryptoSpec == CryptoSpecInit /\ [][CryptoNext]_vars

MixerSpecInit == QueueInit /\ CryptoIdle /\ MixerInit /\ PreloadIdle

MixerNext ==
    \/ Cycle /\ UNCHANGED <<qvars, cvars, hvars, pvars, ovars>>
    \/ \E n \in 0..MaxFrames : MixAddTrack(n) /\ UNCHANGED <<qvars, cvars, hvars, pvars, ovars>>
    \/ \E i \in 0..(MaxMixTracks - 1) : MixPause(i) /\ UNCHANGED <<qvars, cvars, hvars, pvars, ovars>>
    \/ \E i \in 0..(MaxMixTracks - 1) : MixPlay(i) /\ UNCHANGED <<qvars, cvars, hvars, pvars, ovars>>

MixerSpec == MixerSpecInit /\ [][MixerNext]_vars

\* The history of dequeue(): a call records its index and what it returned,
\* every other step clears the record.
DequeueHistory(index) ==
    /\ dqIndex' = index
    /\ dequeued' = Removed(tracks, index)
    /\ UNCHANGED playAsked

NoDequeue ==
    /\ dqIndex' = 0
    /\ dequeued' = NoTrack
    /\ UNCHANGED playAsked

DequeueNext ==
    \/ \E t \in Tracks : AddBegin(t) /\ NoDequeue /\ UNCHANGED <<cvars, hvars, mvars, pvars>>
    \/ \E t \in Tracks : AddRawLock(t, HasDuration(t)) /\ NoDequeue
                              /\ UNCHANGED <<cvars, hvars, mvars, pvars>>
    \/ \E t \in Tracks : RawHandle(t) /\ AddRawPlaying(t) /\ NoDequeue
                              /\ UNCHANGED <<cvars, hvars, mvars, pvars>>
    \/ \E t \in Tracks : AddRawCritical(t) /\ NoDequeue /\ UNCHANGED <<cvars, hvars, mvars, pvars>>
    \/ \E t \in Tracks : AddRawPlay(t) /\ NoDequeue /\ UNCHANGED <<cvars, hvars, mvars, pvars>>
    \/ CurrentCall /\ NoDequeue /\ UNCHANGED <<cvars, hvars, mvars, pvars>>
    \/ Pause /\ NoDequeue /\ UNCHANGED <<cvars, hvars, mvars, pvars>>
    \/ Resume /\ NoDequeue /\ UNCHANGED <<cvars, hvars, mvars, pvars>>
    \/ Skip /\ NoDequeue /\ UNCHANGED <<cvars, hvars, mvars, pvars>>
    \/ Stop /\ NoDequeue /\ UNCHANGED <<cvars, hvars, mvars, pvars>>
    \/ \E i \in 1..NumTracks : Dequeue(i) /\ DequeueHistory(i)
                                   /\ UNCHANGED <<cvars, hvars, mvars, pvars>>
    \/ QueueHandlerAct /\ NoDequeue /\ UNCHANGED <<cvars, hvars, mvars, pvars>>
    \/ \E t \in Tracks : SongPreloaderAct(t) /\ NoDequeue /\ UNCHANGED <<cvars, hvars, mvars, pvars>>
    \/ MixerTick /\ NoDequeue /\ UNCHANGED <<cvars, hvars, mvars, pvars>>
    \/ \E t \in Tracks : TrackEnds(t) /\ NoDequeue /\ UNCHANGED <<cvars, hvars, mvars, pvars>>
    \/ \E t \in Tracks : HandleStop(t) /\ NoDequeue /\ UNCHANGED <<cvars, hvars, mvars, pvars>>

DequeueSpec == Init /\ [][DequeueNext]_vars

\* The history of play(): the tracks the queue has called play() on, whether
\* the call succeeded or not.
RECURSIVE Range(_)
Range(q) == IF q = <<>> THEN {} ELSE {Head(q)} \cup Range(Tail(q))

PlayAsked(ts) ==
    /\ playAsked' = playAsked \cup ts
    /\ UNCHANGED <<dequeued, dqIndex>>

\* The queue without calls of pause, dequeue or modify_queue, with handles of
\* ended tracks among those handed to add_raw.
DrainNext ==
    \/ \E t \in Tracks : AddBegin(t) /\ UNCHANGED <<cvars, hvars, mvars, pvars, ovars>>
    \/ \E t \in Tracks : AddRawLock(t, HasDuration(t)) /\ UNCHANGED <<cvars, hvars, mvars, pvars, ovars>>
    \/ \E t \in Tracks : RawHandle(t) /\ AddRawPlaying(t) /\ UNCHANGED <<cvars, hvars, mvars, pvars, ovars>>
    \/ \E t \in Tracks : AddRawFinished(t) /\ UNCHANGED <<cvars, hvars, mvars, pvars, ovars>>
    \/ \E t \in Tracks : AddRawCritical(t) /\ UNCHANGED <<cvars, hvars, mvars, pvars, ovars>>
    \/ \E t \in Tracks : AddRawPlay(t) /\ PlayAsked({t}) /\ UNCHANGED <<cvars, hvars, mvars, pvars>>
    \/ CurrentCall /\ UNCHANGED <<cvars, hvars, mvars, pvars, ovars>>
    \/ Resume /\ PlayAsked(IF tracks = <<>> THEN {} ELSE {Head(tracks)})
              /\ UNCHANGED <<cvars, hvars, mvars, pvars>>
    \/ Skip /\ UNCHANGED <<cvars, hvars, mvars, pvars, ovars>>
    \/ Stop /\ UNCHANGED <<cvars, hvars, mvars, pvars, ovars>>
    \/ QueueHandlerAct /\ PlayAsked(Range(last'.asked)) /\ UNCHANGED <<cvars, hvars, mvars, pvars>>
    \/ \E t \in Tracks : SongPreloaderAct(t) /\ UNCHANGED <<cvars, hvars, mvars, pvars, ovars>>
    \/ MixerTick /\ UNCHANGED <<cvars, hvars, mvars, pvars, ovars>>
    \/ \E t \in Tracks : TrackEnds(t) /\ UNCHANGED <<cvars, hvars, mvars, pvars, ovars>>
    \/ \E t \in Tracks : HandleStop(t) /\ UNCHANGED <<cvars, hvars, mvars, pvars, ovars>>

\* The mixer thread ticks every 20 ms, the event loop runs the handler of every
\* event it is sent, a thread inside add_raw runs on to its end, and every
\* track in Play state reaches its end.
DrainFairness ==
    /\ WF_vars(MixerTick /\ UNCHANGED <<cvars, hvars, mvars, pvars, ovars>>)
    /\ WF_vars(QueueHandlerAct /\ PlayAsked(Range(last'.asked))
                  /\ UNCHANGED <<cvars, hvars, mvars, pvars>>)
    /\ WF_vars(\E t \in Tracks : AddRawCritical(t) /\ UNCHANGED <<cvars, hvars, mvars, pvars, ovars>>)
    /\ WF_vars(\E t \in Tracks : AddRawPlay(t) /\ PlayAsked({t})
                  /\ UNCHANGED <<cvars, hvars, mvars, pvars>>)
    /\ \A t \in Tracks :
          WF_vars(TrackEnds(t) /\ UNCHANGED <<cvars, hvars, mvars, pvars, ovars>>)

DrainSpec == Init /\ [][DrainNext]_vars /\ DrainFairness

PreloadSpecInit == QueueInit /\ CryptoIdle /\ MixerIdle /\ PreloadInit

PreloadNext ==
    \/ AddGetPreloadTime /\ UNCHANGED <<qvars, cvars, hvars, mvars, ovars>>
    \/ AddRawInstall /\ UNCHANGED <<qvars, cvars, hvars, mvars, ovars>>

PreloadSpec == PreloadSpecInit /\ [][PreloadNext]_vars

(***************************************************************************)
(* Properties of the track queue, stated for Spec.                         *)
(***************************************************************************)
\* The tracks that were pushed onto the queue by add / add_raw.
Queued == {t \in Tracks : pc[t] \in {"play", "done"}}

Playing == {t \in Queued : mode[t] = "Play"}

InQueue(t) == \E i \in 1..Len(tracks) : tracks[i] = t

\* The step just taken is QueueHandler::act for the event at the head of
\* `events`: no other action consumes an event.
ActStep == events # <<>> /\ events' = Tail(events)

IsSuffix(s, q) == \E k \in 0..Len(q) : s = SubSeq(q, k + 1, Len(q))

\* C2 as claimed: under any interleaving of add/add_raw, pause, resume, skip,
\* stop, dequeue/modify_queue and End handling, at most one of the tracks
\* added through the queue is in Play state.
C2_AtMostOnePlaying == Cardinality(Playing) <= 1

\* C2 amended: as long as dequeue / modify_queue has not changed the queue
\* and every track was paused when it entered the queue, at most one of the
\* tracks added through the queue is in Play state.
C2_AtMostOnePlayingUnmodified ==
    (~userModified /\ ~rawPlaying) => Cardinality(Playing) <= 1

\* Witness of C2: the second track plays after the first one has ended and
\* was popped, with no dequeue or modify_queue involved.
C2_Witness ==
    /\ ~userModified
    /\ ~rawPlaying
    /\ Queued = Tracks
    /\ mode[1] = "End"
    /\ mode[2] = "Play"
    /\ tracks = <<2>>

\* C3 as claimed: every queue-managed track in Play state is the entry at the
\* front of the queue (the one current() returns); no track at a later index
\* and no removed track is playing.
C3_PlayingIsFront == \A t \in Playing : Current = t

\* C3 amended: as long as dequeue / modify_queue has not changed the queue
\* and every track was paused when it entered the queue, every queue-managed
\* track in Play state is the front entry, unless a stop sent to it is still
\* waiting for the mixer's next tick.
C3_PlayingIsFrontUnmodified ==
    (~userModified /\ ~rawPlaying) =>
        \A t \in Playing : inbound.cmd[t] = "stop" \/ Current = t

\* Witness of C3: the front track plays with another entry queued behind it.
C3_Witness ==
    /\ ~userModified
    /\ ~rawPlaying
    /\ Len(tracks) = 2
    /\ mode[Current] = "Play"
    /\ inbound = NoMessages

\* C4: handling the End of the front track pops it and asks the new front to
\* play in the same critical section; with no user reordering a track starts
\* only after every track added before it was popped, and before every track
\* added after it.
C4_AdvanceInOrder ==
    [][/\ (ActStep /\ HeadMatches(Head(events))) =>
            /\ IsSuffix(tracks', Tail(tracks))
            /\ Len(tracks) >= 2 =>
                  /\ last'.asked # <<>>
                  /\ last'.asked[1] = tracks[2]
            /\ tracks' # <<>> => inbound'.cmd[Head(tracks')] \in {"play", "stop"}
            /\ lock' = NoTrack
       /\ ~userModified' =>
            \A t \in started' \ started :
                /\ \A u \in Queued : u < t => ~InQueue(u)'
                /\ \A u \in Tracks : u > t => u \notin started'
      ]_vars

\* Witness of C4: the handler has just popped the ended first track and asked
\* the second one to play.
C4_Witness ==
    /\ ~userModified
    /\ last = Obs("act", 1, <<1>>, <<2>>)
    /\ tracks = <<2>>
    /\ inbound.cmd[2] = "play"
    /\ started = {1}

\* C5: act() for the End of a track that is not the queue head, or for a
\* context that is no track context, leaves the queue as it is and sends no
\* play command.
C5_MismatchIsIgnored ==
    /\ [](\A ctx \in NonTrackCtxs \cup {TrackCtx(t) : t \in Tracks} :
            (ctx.kind # "Track" \/ Current # ctx.track) =>
                /\ act(ctx).tracks = tracks
                /\ act(ctx).popped = <<>>
                /\ act(ctx).asked = <<>>
                /\ act(ctx).inbound = inbound)
    /\ [][(ActStep /\ Current # Head(events)) =>
            /\ tracks' = tracks
            /\ inbound' = inbound
            /\ last'.asked = <<>>]_vars

\* Witness of C5: the handler has just handled the End of a track that was
\* removed from a queue which still holds the other track.
C5_Witness ==
    /\ last = Obs("act", 1, <<>>, <<>>)
    /\ tracks = <<2>>
    /\ userModified
    /\ ~Finished(2)

\* C9: the queue mutex is held only inside add_raw's critical section, never
\* by a caller suspended in add()'s metadata lookup, and every other
\* operation or handler leaves it released.
C9_NoLockAcrossAwait ==
    /\ \A t \in Tracks : pc[t] = "meta" => lock # t
    /\ lock # NoTrack => pc[lock] = "locked"

\* Witness of C9: one caller holds the lock inside add_raw while another is
\* suspended in its metadata lookup.
C9_Witness ==
    /\ lock = 1
    /\ pc[1] = "locked"
    /\ pc[2] = "meta"

ProperLen == payloadLen = payloadEnd + payload_suffix_len(cstate.kind)

\* The bytes of the packet body at offsets [from, to).
BodyBytes(pkt, from, to) == SubSeq(Body(pkt), from + 1, to)

\* C1: in Lite mode the k-th write_packet_nonce call (k = 0, 1, ...) writes
\* (c0 + k) mod 2^32 big-endian at [payload_end, payload_end + 4), and the
\* counter of the CryptoState has advanced by one with every call, wrapping.
C1_LiteNonceCounts ==
    (phase = "nonced" /\ cstate.kind = "Lite") =>
        /\ ReadBigEndian32(BodyBytes(packet, payloadEnd, payloadEnd + 4))
               = WrappingAdd(c0, calls - 1)
        /\ cstate.counter = WrappingAdd(c0, calls)

\* C6: for each mode, key and payload, decrypting what write_packet_nonce and
\* encrypt_in_place produced, with the same key, the stored tag and the nonce
\* read back from the packet, gives the original payload.
C6_RoundTrip ==
    (phase = "received" /\ ProperLen) => recovered = plain

\* Witness of C6: a Suffix-mode packet with a payload of the greatest length
\* was encrypted into different bytes and decrypted back.
C6_Witness ==
    /\ phase = "received"
    /\ ProperLen
    /\ cstate.kind = "Suffix"
    /\ Len(plain) = MaxPlain
    /\ BodyBytes(packet, TAG_SIZE, TAG_SIZE + MaxPlain) # plain
    /\ recovered = plain

C7_SuffixLen(m) == IF m = "Normal" THEN 0 ELSE IF m = "Suffix" THEN 24 ELSE 4

\* C7: for an n-byte payload at body offset 16 the encrypted body is the
\* 16-byte tag at [0, 16), n ciphertext bytes at [16, 16 + n), then the nonce
\* suffix of 0 (Normal), 24 (Suffix) or 4 (Lite) bytes; the length added is
\* payload_overhead() = 16 + payload_suffix_len(): 16, 40 and 20.
C7_BodyLayout ==
    /\ \A m \in Modes :
          /\ payload_suffix_len(m) = C7_SuffixLen(m)
          /\ payload_overhead(m) = 16 + payload_suffix_len(m)
    /\ <<payload_overhead("Normal"), payload_overhead("Suffix"),
         payload_overhead("Lite")>> = <<16, 40, 20>>
    /\ (phase = "encrypted" /\ ProperLen) =>
          LET m == cstate.kind
              n == Len(plain)
              suffix == BodyBytes(prev, 16 + n, 16 + n + C7_SuffixLen(m))
              nonce == NonceFrom(m, IF m = "Normal" THEN Header(prev) ELSE suffix)
              ct == CipherEncrypt(key, nonce, plain)
          IN /\ result = "Ok"
             /\ payloadLen = n + payload_overhead(m)
             /\ BodyBytes(packet, 0, 16) = CipherTag(key, nonce, ct)
             /\ BodyBytes(packet, 16, 16 + n) = ct
             /\ BodyBytes(packet, 16 + n, payloadLen) = suffix
             /\ Len(suffix) = C7_SuffixLen(m)

\* Witness of C7: a Lite-mode packet with a payload of the greatest length has
\* been encrypted.
C7_Witness ==
    /\ phase = "encrypted"
    /\ ProperLen
    /\ result = "Ok"
    /\ cstate.kind = "Lite"
    /\ Len(plain) = MaxPlain
    /\ payloadLen = MaxPlain + 20

\* C8: encrypt_in_place changes only body bytes in
\* [0, payload_len - payload_suffix_len()); the header, the nonce suffix and
\* every byte at or beyond payload_len are as they were before the call.
C8_OnlyBodyChanges ==
    phase = "encrypted" =>
        /\ Len(packet) = Len(prev)
        /\ \A i \in 1..Len(packet) :
              (\/ i <= RtpMinimumPacketSize
               \/ i > RtpMinimumPacketSize + payloadLen - payload_suffix_len(cstate.kind))
                  => packet[i] = prev[i]

\* Witness of C8: a Suffix-mode packet was encrypted in a buffer that holds
\* bytes beyond payload_len.
C8_Witness ==
    /\ phase = "encrypted"
    /\ result = "Ok"
    /\ cstate.kind = "Suffix"
    /\ plain # <<>>
    /\ payloadLen < BodyCap
    /\ packet # prev

(***************************************************************************)
(* Further properties of the track queue, stated for Spec.                 *)
(***************************************************************************)
\* The entry directly behind track t in queue q, as a sequence of 0 or 1.
Follower(q, t) ==
    IF \E i \in 1..(Len(q) - 1) : q[i] = t
    THEN <<q[(CHOOSE i \in 1..(Len(q) - 1) : q[i] = t) + 1]>>
    ELSE <<>>

\* The step just taken is SongPreloader::act for track t.
PreloadStep(t) == last'.op = "preload" /\ last'.t = t

\* C11 as claimed: when the SongPreloader of track T fires, make_playable is
\* requested for the track directly behind T in the queue, for none when T is
\* the last entry; the queue is unchanged and no play is sent.
C11_PreloadsFollower ==
    [][\A t \in Tracks : PreloadStep(t) =>
          /\ last'.asked = Follower(tracks, t)
          /\ tracks' = tracks
          /\ inbound' = inbound]_vars

\* C11 amended: when the SongPreloader of track T fires, make_playable is
\* requested for the entry at index 1 of the queue, which is the track
\* directly behind T whenever T is the front entry (none when T is the only
\* entry); the queue is unchanged and no play is sent.
C11_PreloadsSecondEntry ==
    [][\A t \in Tracks : PreloadStep(t) =>
          /\ last'.asked = IF Len(tracks) >= 2 THEN <<tracks[2]>> ELSE <<>>
          /\ Current = t => last'.asked = Follower(tracks, t)
          /\ last'.popped = <<>>
          /\ tracks' = tracks
          /\ inbound' = inbound
          /\ mode' = mode
          /\ lock' = NoTrack]_vars

\* Witness of C11: the preloader of the playing front track has just asked the
\* entry behind it to become playable.
C11_Witness ==
    /\ last = Obs("preload", 1, <<>>, <<2>>)
    /\ tracks = <<1, 2>>
    /\ mode[1] = "Play"
    /\ mode[2] = "Pause"

\* The step just taken appends track t to the queue.
AppendStep(t) == pc[t] = "locked" /\ tracks' = Append(tracks, t)

\* The step just taken is the end of add_raw for a track found should_play.
PlayStep(t) == pc[t] = "play" /\ pc'[t] = "done"

\* Track t came in through add_raw as a handle the driver was playing.
EnteredRaw(t) == RawHandle(t) /\ rawPlaying

\* What the add operation does to the track it appends: it decides to play
\* exactly when the queue was empty at the append, sends nothing in the
\* append itself, and sends play, and only play to that track, afterwards.
AddPlaysIffEmpty(t) ==
    /\ AppendStep(t) =>
          /\ (pc'[t] = "play") = (tracks = <<>>)
          /\ (pc'[t] = "done") = (tracks # <<>>)
          /\ inbound' = inbound
          /\ lock = t /\ lock' = NoTrack
    /\ PlayStep(t) =>
          /\ inbound' = Send(inbound, t, "play")
          /\ tracks' = tracks

\* C12 as claimed: a track added through add or add_raw is paused in the
\* driver when it is appended, and the add sends it play if and only if the
\* queue was empty at the append, which is one step with the emptiness test.
C12_PausedAndPlaysIffEmpty ==
    [][\A t \in Tracks :
          /\ AppendStep(t) => mode[t] = "Pause"
          /\ AddPlaysIffEmpty(t)]_vars

\* C12 amended: a track added through add is paused in the driver when it is
\* appended (add_raw leaves its handle as it is), and the add sends the track
\* play if and only if the queue was empty at the append, which is one step
\* with the emptiness test; a track appended to a non-empty queue gets no play
\* from the add.
C12_AddPausedAndPlaysIffEmpty ==
    [][\A t \in Tracks :
          /\ (AppendStep(t) /\ ~EnteredRaw(t)) => mode[t] = "Pause"
          /\ AddPlaysIffEmpty(t)]_vars

\* Witness of C12: two adds ran at once towards an empty queue; the first to
\* append is about to send play, the second was appended behind it and gets
\* none, and both are paused in the driver.
C12_Witness ==
    /\ tracks = <<1, 2>>
    /\ pc = <<"play", "done">>
    /\ mode = <<"Pause", "Pause">>
    /\ ~rawPlaying
    /\ inbound = NoMessages

\* The step just taken is stop() on a queue that is not empty.  While
\* modify_queue has removed nothing, stop() is the only operation that shortens
\* the queue without consuming an event.
StopStep ==
    /\ tracks # <<>>
    /\ Len(tracks') < Len(tracks)
    /\ events' = events
    /\ ~userModified'

\* Track t has been sent a stop command that the mixer has not applied yet,
\* or the track has finished already (the command's error is ignored).
StopSentOrFinished(t) == Finished(t) \/ inbound.cmd[t] = "stop"

\* C13: after stop() the queue is empty and every track that was in it has
\* been sent a stop command; a track that left the queue that way stays
\* stopped, and an End event delivered for a track that is no longer in the
\* queue neither removes nor starts any track that is in it.
C13_StopDrainsAndStaysOut ==
    /\ [][/\ StopStep =>
               /\ tracks' = <<>>
               /\ \A t \in Tracks :
                     IF InQueue(t)
                     THEN Finished(t) \/ inbound'.cmd[t] = "stop"
                     ELSE inbound'.cmd[t] = inbound.cmd[t]
               /\ mode' = mode
               /\ lock' = NoTrack
          /\ (ActStep /\ ~InQueue(Head(events))) =>
               /\ tracks' = tracks
               /\ inbound' = inbound
               /\ last'.popped = <<>> /\ last'.asked = <<>>]_vars
    /\ [](~userModified =>
            \A t \in Queued : InQueue(t) \/ StopSentOrFinished(t))

\* Witness of C13: track 1 was drained by stop(), track 2 was added after it and
\* plays, and the End event of track 1 has just been handled without effect.
C13_Witness ==
    /\ last = Obs("act", 1, <<>>, <<>>)
    /\ tracks = <<2>>
    /\ mode[1] = "Stop"
    /\ mode[2] = "Play"
    /\ ~userModified
    /\ ~rawPlaying

(***************************************************************************)
(* Properties of skip(), stated for SkipSpec.                              *)
(***************************************************************************)
\* The step just taken is skip().
SkipStep == skipFlip' # skipFlip

\* skip() sends stop to the front track only and leaves the queue alone; on
\* an empty queue it sends nothing.
SkipStopsFrontOnly ==
    SkipStep =>
       /\ tracks' = tracks
       /\ tracks = <<>> => inbound' = inbound
       /\ \A t \in Tracks :
             IF t = Current
             THEN Finished(t) \/ inbound'.cmd[t] = "stop"
             ELSE inbound'.cmd[t] = inbound.cmd[t]
       /\ mode' = mode /\ events' = events
       /\ lock' = NoTrack

\* The step just taken handles the End event of a front track that skip()
\* stopped.
SkippedEndStep == ActStep /\ Head(events) \in skipped /\ HeadMatches(Head(events))

\* A front track that skip() stopped leaves the queue.
SkippedLeaves == \A h \in Tracks : (h \in skipped) ~> ~InQueue(h)

\* C14 as claimed: skip() sends stop to the front track only and leaves the
\* queue alone; the End of the stopped front track removes it and asks the
\* next entry, if any, to play, so that the queue advances by exactly one
\* track.
C14_SkipAdvancesByOne ==
    /\ [][/\ SkipStopsFrontOnly
          /\ SkippedEndStep =>
               /\ tracks' = Tail(tracks)
               /\ Len(tracks) >= 2 => last'.asked = <<tracks[2]>>]_vars
    /\ SkippedLeaves

\* C14 amended: skip() sends stop to the front track only and leaves the
\* queue alone; the End of the stopped front track removes it and asks the
\* next entry, if any, to play, and removes as well every entry directly
\* behind it whose play fails, so that the queue advances by exactly one
\* track when the next entry can still play.
C14_SkipAdvancesToNextPlayable ==
    /\ [][/\ SkipStopsFrontOnly
          /\ SkippedEndStep =>
               /\ IsSuffix(tracks', Tail(tracks))
               /\ last'.popped = SubSeq(tracks, 1, Len(tracks) - Len(tracks'))
               /\ \A i \in 2..Len(last'.popped) : Finished(last'.popped[i])
               /\ Len(tracks) >= 2 =>
                     /\ last'.asked # <<>>
                     /\ last'.asked[1] = tracks[2]
               /\ (Len(tracks) >= 2 /\ ~Finished(tracks[2])) => tracks' = Tail(tracks)
               /\ tracks' # <<>> =>
                     /\ ~Finished(Head(tracks'))
                     /\ inbound'.cmd[Head(tracks')] \in {"play", "stop"}]_vars
    /\ SkippedLeaves

\* Witness of C14: skip() stopped the playing first track, and the handler of
\* its End event has just popped it and asked the second track to play.
C14_Witness ==
    /\ skipped = {1}
    /\ last = Obs("act", 1, <<1>>, <<2>>)
    /\ tracks = <<2>>
    /\ mode[1] = "Stop"
    /\ 1 \in started
    /\ inbound.cmd[2] = "play"

(***************************************************************************)
(* Further properties of the packet layout code, stated for CryptoSpec.    *)
(***************************************************************************)
\* C18: in Lite mode, after a call of write_packet_nonce the counter held by
\* the CryptoState equals the nonce value that the call wrote into the packet.
C18_StateHoldsWrittenNonce ==
    (phase = "nonced" /\ cstate.kind = "Lite") =>
        cstate.counter = ReadBigEndian32(BodyBytes(packet, payloadEnd, payloadEnd + 4))

\* Witness of C18: the second Lite packet of a session whose counter started
\* at 1000 has its nonce written.
C18_Witness ==
    /\ phase = "nonced"
    /\ cstate.kind = "Lite"
    /\ calls = 2
    /\ c0 = U32(0, 1000)
    /\ plain # <<>>
    /\ BodyBytes(packet, payloadEnd, payloadEnd + 4) = <<0, 0, 3, 232>>

\* The step just taken is a call of write_packet_nonce.
NonceStep == phase = "filled" /\ phase' = "nonced"

\* C19: write_packet_nonce returns payload_end for Normal, payload_end + 24
\* for Suffix and payload_end + 4 for Lite, changes no byte of the packet
\* outside [payload_end, returned endpoint) of the payload, changes neither
\* the packet nor the CryptoState in Normal mode, and never changes the mode.
C19_WritesOnlyTheSuffix ==
    [][NonceStep =>
          /\ payloadLen' = payloadEnd + C7_SuffixLen(cstate.kind)
          /\ Len(packet') = Len(packet)
          /\ \A i \in 1..Len(packet) :
                (i <= RtpMinimumPacketSize + payloadEnd
                   \/ i > RtpMinimumPacketSize + payloadLen') => packet'[i] = packet[i]
          /\ cstate.kind = "Normal" => (packet' = packet /\ cstate' = cstate)
          /\ cstate'.kind = cstate.kind]_vars

\* Witness of C19: a Suffix-mode call has written its 24 bytes behind a
\* payload of the greatest length.
C19_Witness ==
    /\ phase = "nonced"
    /\ cstate.kind = "Suffix"
    /\ Len(plain) = MaxPlain
    /\ payloadLen = payloadEnd + NONCE_SIZE
    /\ packet # prev
    /\ Header(packet) = Header(prev)

\* C20: in Suffix and Lite modes encrypt_in_place with a payload_len below the
\* mode's suffix length returns an error and leaves the packet as it was.
C20_ShortPayloadIsAnError ==
    (/\ phase = "encrypted"
     /\ cstate.kind \in {"Suffix", "Lite"}
     /\ payloadLen < C7_SuffixLen(cstate.kind)) =>
        /\ result = "Err"
        /\ packet = prev

\* Witness of C20: a Suffix-mode call with payload_len 23, one byte short of
\* the suffix, has returned an error.
C20_Witness ==
    /\ phase = "encrypted"
    /\ cstate.kind = "Suffix"
    /\ payloadLen = NONCE_SIZE - 1
    /\ result = "Err"
    /\ plain # <<>>
    /\ packet = prev

(***************************************************************************)
(* Properties of the mixer's cycle, stated for MixerSpec.                  *)
(***************************************************************************)
\* The step just taken is a cycle of the mixer.
CycleStep == cycles' = cycles + 1

\* a - b modulo 2^32, on the halves.
U32Sub(a, b) ==
    LET borrow == IF a[2] < b[2] THEN 1 ELSE 0
    IN U32((a[1] - b[1] - borrow + Half) % Half, (a[2] - b[2] + Half) % Half)

\* Packet q comes after packet p in RTP order, read with wrap: its sequence
\* number and its timestamp are ahead of p's by less than half their range.
RtpAfter(q, p) ==
    /\ (q.sequence - p.sequence + Half) % Half \in 1..(Half \div 2 - 1)
    /\ U32Sub(q.timestamp, p.timestamp) # U32(0, 0)
    /\ U32Sub(q.timestamp, p.timestamp)[1] < Half \div 2

\* C15: a cycle changes the timestamp by 0 or 960 modulo 2^32 and the sequence
\* number by 0 or 1 modulo 2^16, and the packets handed to the UDP sink carry
\* strictly increasing sequence numbers and timestamps read with wrap: no two
\* share a sequence number and none is out of order.
C15_RtpCountersAdvanceInOrder ==
    /\ [][/\ sequence' \in {sequence, (sequence + 1) % Half}
          /\ timestamp' \in {timestamp, WrappingAdd(timestamp, 960)}
          /\ ~CycleStep => (sequence' = sequence /\ timestamp' = timestamp
                              /\ udp_tx' = udp_tx)
          /\ CycleStep => \/ udp_tx' = udp_tx
                          \/ /\ Len(udp_tx') = Len(udp_tx) + 1
                             /\ SubSeq(udp_tx', 1, Len(udp_tx)) = udp_tx
                             /\ udp_tx'[Len(udp_tx')].sequence = sequence
                             /\ udp_tx'[Len(udp_tx')].timestamp = timestamp]_vars
    /\ [](/\ sequence \in 0..(Half - 1)
          /\ \A k \in 1..Len(udp_tx) : udp_tx[k].sequence \in 0..(Half - 1)
          /\ \A j \in 1..Len(udp_tx) : \A k \in 1..Len(udp_tx) :
                j < k => /\ RtpAfter(udp_tx[k], udp_tx[j])
                         /\ udp_tx[j].sequence # udp_tx[k].sequence)

\* Witness of C15: audio packets and silence packets were sent, the sequence
\* number and the timestamp both wrapped on the way, and a cycle sent nothing.
C15_Witness ==
    /\ Len(udp_tx) >= 4
    /\ Len(udp_tx) < cycles
    /\ udp_tx[1].sequence = Half - 2
    /\ udp_tx[1].timestamp = U32(Half - 1, Half - 2 * 960)
    /\ udp_tx[3].sequence = 0
    /\ udp_tx[3].timestamp = U32(0, 0)
    /\ \E k \in 1..Len(udp_tx) : udp_tx[k].payload # SILENT_FRAME
    /\ \E k \in 1..Len(udp_tx) : udp_tx[k].payload = SILENT_FRAME

C17_OnlyEmptyTracksCulled ==
    (bench = "culling" /\ cycles = 5) =>
        /\ \A i \in 0..4 : i \in endEvents /\ i \notin DOMAIN mixing
        /\ \A i \in 5..14 : i \notin endEvents /\ i \in DOMAIN mixing
                               /\ mixing[i].play = "Play"

\* C17 amended: with 15 tracks where track i holds floor(i/5) frames, after
\* 5 cycles all 15 tracks have ended, their End events posted, and the mixer
\* owns none of them; until its End event is posted a track is owned by the
\* mixer.
C17_AllTracksCulled ==
    bench = "culling" =>
        /\ endEvents \cup DOMAIN mixing = 0..14
        /\ endEvents \cap DOMAIN mixing = {}
        /\ \A i \in 0..4 : cycles >= 1 => i \in endEvents
        /\ cycles >= 5 => (endEvents = 0..14 /\ DOMAIN mixing = {})

\* Witness of C17: the fifth cycle of the culling bench has run and every
\* track's End event was posted.
C17_Witness ==
    /\ bench = "culling"
    /\ cycles = 5
    /\ endEvents = 0..14
    /\ Len(udp_tx) = 5

(***************************************************************************)
(* The nonce, the tag region and the outcomes of encrypt_in_place, stated  *)
(* for CryptoSpec.                                                         *)
(***************************************************************************)
\* encrypt_in_place has just returned Ok: `prev` is the packet it was given.
EncryptedOk == phase = "encrypted" /\ result = "Ok"

\* The bytes nonce_slice hands back as the source of the nonce.
NonceSource(m, pkt, payload_len) ==
    nonce_slice(m, Header(pkt), SubSeq(Body(pkt), 1, payload_len)).nonce

\* The packet is what the cipher makes of the given packet under nonce n: the
\* ciphertext of the bytes between the tag and the nonce suffix, and its tag.
SealedUnder(n) ==
    LET m == cstate.kind
        ct == CiphertextRegion(m, packet, payloadLen)
    IN /\ ct = CipherEncrypt(key, n, CiphertextRegion(m, prev, payloadLen))
       /\ BodyBytes(packet, 0, TAG_SIZE) = CipherTag(key, n, ct)

\* C21 as claimed: the 24-byte nonce of encrypt_in_place is the 12 header
\* bytes behind 12 leading zero bytes in Normal mode, the 4 counter bytes of
\* the suffix behind 20 leading zero bytes in Lite mode, and exactly the 24
\* suffix bytes in Suffix mode.
C21_NonceLeftZeroPadded ==
    EncryptedOk =>
        LET m == cstate.kind
            src == NonceSource(m, prev, payloadLen)
        IN /\ Len(src) = (IF m = "Normal" THEN 12 ELSE IF m = "Lite" THEN 4 ELSE 24)
           /\ m = "Normal" => src = Header(prev)
           /\ m # "Normal" => src = BodyBytes(prev, payloadLen - Len(src), payloadLen)
           /\ (m = "Lite" /\ payloadLen = payloadEnd + 4) => src = BigEndian32(cstate.counter)
           /\ SealedUnder(Zeros(24 - Len(src)) \o src)

\* C21 amended: the 24-byte nonce of encrypt_in_place is the 12 header bytes
\* followed by 12 zero bytes in Normal mode, the 4 big-endian counter bytes of
\* the suffix followed by 20 zero bytes in Lite mode, and exactly the 24
\* suffix bytes in Suffix mode.
C21_NonceZeroPaddedBehind ==
    EncryptedOk =>
        LET m == cstate.kind
            src == NonceSource(m, prev, payloadLen)
        IN /\ Len(src) = (IF m = "Normal" THEN 12 ELSE IF m = "Lite" THEN 4 ELSE 24)
           /\ m = "Normal" => src = Header(prev)
           /\ m # "Normal" => src = BodyBytes(prev, payloadLen - Len(src), payloadLen)
           /\ (m = "Lite" /\ payloadLen = payloadEnd + 4) => src = BigEndian32(cstate.counter)
           /\ SealedUnder(src \o Zeros(24 - Len(src)))

\* Witness of C21: a Lite-mode packet with a payload was encrypted with the
\* payload_len write_packet_nonce returned, under a counter that is not zero.
C21_Witness ==
    /\ EncryptedOk
    /\ cstate.kind = "Lite"
    /\ cstate.counter = U32(0, 1000)
    /\ Len(plain) = MaxPlain
    /\ payloadLen = payloadEnd + LiteNonceSize
    /\ BodyBytes(prev, payloadEnd, payloadLen) = <<0, 0, 3, 232>>
    /\ packet # prev

\* body_remaining as `cipher.encrypt_in_place_detached` is called on its part
\* behind the tag: nothing has written to the packet since the call began, so
\* the tag region holds what the caller left there.
CipherInput(m, pkt, payload_len) ==
    LET ns == nonce_slice(m, Header(pkt), SubSeq(Body(pkt), 1, payload_len))
    IN [tag |-> BodyBytes(pkt, 0, TAG_SIZE),
        buffer |-> BodyBytes(pkt, TAG_SIZE, ns.left)]

\* C22 as claimed: the 16-byte tag region behind the header is all zero when
\* encrypt_in_place invokes the cipher, and holds the computed tag afterwards.
C22_TagZeroedBeforeCipher ==
    EncryptedOk =>
        LET m == cstate.kind
            n == NonceFrom(m, NonceSource(m, prev, payloadLen))
        IN /\ CipherInput(m, prev, payloadLen).tag = Zeros(16)
           /\ BodyBytes(packet, 0, 16) =
                 CipherTag(key, n, CiphertextRegion(m, packet, payloadLen))

\* C22 amended: encrypt_in_place does not write the 16-byte tag region before
\* it invokes the cipher: the region holds the caller's bytes, which the
\* cipher does not read (zeroing them first would give the same packet), and
\* only afterwards is it overwritten with the computed tag.
C22_TagWrittenAfterCipher ==
    EncryptedOk =>
        LET m == cstate.kind
            n == NonceFrom(m, NonceSource(m, prev, payloadLen))
            at == CipherInput(m, prev, payloadLen)
        IN /\ at.tag = BodyBytes(prev, 0, 16)
           /\ CiphertextRegion(m, packet, payloadLen) = CipherEncrypt(key, n, at.buffer)
           /\ BodyBytes(packet, 0, 16) =
                 CipherTag(key, n, CiphertextRegion(m, packet, payloadLen))
           /\ packet = encrypt_in_place(m, WriteBody(prev, 0, Zeros(16)), key,
                                        payloadLen).packet

\* Witness of C22: a packet whose tag region the caller left filled with 0xAA
\* was encrypted, and the region now holds other bytes.
C22_Witness ==
    /\ EncryptedOk
    /\ BodyBytes(prev, 0, TAG_SIZE) = [i \in 1..TAG_SIZE |-> 170]
    /\ BodyBytes(packet, 0, TAG_SIZE) # BodyBytes(prev, 0, TAG_SIZE)
    /\ plain # <<>>

\* C25: for every mode and every payload_len from 0 up to the length of the
\* packet's body, encrypt_in_place returns Ok or Err(CryptoError) and never
\* aborts, and a payload_len too short for the 16-byte tag plus the mode's
\* nonce suffix is answered with Err.
C25_ShortPayloadNeverAborts ==
    (phase = "encrypted" /\ payloadLen \in 0..Len(Body(prev))) =>
        /\ result \in {"Ok", "Err"}
        /\ payloadLen < 16 + C7_SuffixLen(cstate.kind) => result = "Err"

(***************************************************************************)
(* The handlers add_raw registers, stated for PreloadSpec.                 *)
(***************************************************************************)
\* C23: add_raw registers a SongPreloader if and only if it is handed a
\* preload time (through add(): the duration the metadata reports), on a
\* Delayed event at max(duration - 5 s, 0), which is zero for a duration
\* shorter than 5 s and never negative; handed none, it registers the
\* QueueHandler on End alone.
C23_PreloaderIffDuration ==
    addpc = "added" =>
        /\ call.api = "add" =>
              preload_time = (IF call.track.kind # "Live" /\ call.track.aux.ok
                              THEN call.track.aux.duration ELSE [some |-> FALSE, val |-> Duration(0, 0)])
        /\ call.api = "add_raw" => preload_time = call.given
        /\ Len(add_events) >= 1
        /\ add_events[1].event = "End" /\ add_events[1].handler = "QueueHandler"
        /\ \A i \in 2..Len(add_events) : add_events[i].handler = "SongPreloader"
        /\ preload_time.some <=> Len(add_events) = 2
        /\ ~preload_time.some <=> Len(add_events) = 1
        /\ preload_time.some =>
              LET d == preload_time.val
                  delay == add_events[2].delay
              IN /\ add_events[2].event = "Delayed"
                 /\ delay.secs >= 0 /\ delay.nanos \in 0..999999999
                 /\ d.secs >= 5 => (delay.secs + 5 = d.secs /\ delay.nanos = d.nanos)
                 /\ d.secs < 5 => (delay.secs = 0 /\ delay.nanos = 0)

\* Witness of C23: add() of a lazy track whose metadata reports a duration one
\* nanosecond short of 5 s has registered its preloader at a delay of zero.
C23_Witness ==
    /\ addpc = "added"
    /\ call.api = "add"
    /\ call.track.kind = "Lazy"
    /\ preload_time = Some(Duration(4, 999999999))
    /\ Len(add_events) = 2
    /\ add_events[2] = [event |-> "Delayed", delay |-> ZERO, handler |-> "SongPreloader"]

(***************************************************************************)
(* dequeue(), stated for DequeueSpec.                                      *)
(***************************************************************************)
\* The step just taken is a call of dequeue.
DequeueStep == dqIndex' # 0

C26_PlayOnlyToUnpausedHead ==
    [][\A t \in Tracks :
          PlayStep(t) => /\ tracks # <<>>
                         /\ Head(tracks) = t
                         /\ inbound.cmd[t] # "pause"]_vars

(***************************************************************************)
(* Ended tracks and the draining of the queue, stated for DrainSpec.       *)
(***************************************************************************)
\* Track t is the head of the queue and has ended.
EndedHead(t) == tracks # <<>> /\ Head(tracks) = t /\ Finished(t)

\* C27: a track that has ended does not stay at the head of the queue for
\* ever, whether add_raw was handed its handle after it ended or it ended
\* while queued: it is discarded, and a track queued behind it is started or
\* leaves the queue.
C27_EndedHeadIsDiscarded ==
    /\ \A t \in Tracks : EndedHead(t) ~> ~EndedHead(t)
    /\ \A t \in Tracks : \A u \in Tracks :
          (EndedHead(t) /\ u # t /\ InQueue(u)) ~> (u \in started \/ ~InQueue(u))

\* No call of add or add_raw is under way.
NoAddUnderWay == \A t \in Tracks : pc[t] \in {"new", "done"}

\* C28: with no call of modify_queue, dequeue or pause, when every track in
\* Play state comes to its end and the handler of its End event runs, every
\* track in the queue is in the end asked to play or discarded, and when no
\* more tracks are added the queue becomes empty.
C28_QueueDrains ==
    /\ \A t \in Tracks : InQueue(t) ~> (t \in playAsked \/ ~InQueue(t))
    /\ NoAddUnderWay ~> (tracks = <<>> \/ ~NoAddUnderWay)

====
